---- MODULE Spec2Model ----
(***************************************************************************)
(* A model of the text-generation orchestration layer of ai_tutor:         *)
(*   - the span reconcilers VocabBrowser._format_with_grammar_errors and   *)
(*     MainWindow._build_grammar_html (specification SpecR),               *)
(*   - GeminiEngine: provider selection, failover, grammar check and the   *)
(*     grammar-category extractor (specification Spec).                    *)
(*                                                                         *)
(* Strings are sequences of characters.  Offsets are Python offsets        *)
(* (0-based, half-open); TLA+ sequences are 1-based, so Python text[i] is  *)
(* text[i+1] here.                                                         *)
(***************************************************************************)
EXTENDS Integers, Sequences, FiniteSets, TLC

VARIABLES
    \* ---- span reconciliation (one call of one of the two renderers) ----
    which,        \* "vb" = _format_with_grammar_errors, "mw" = _build_grammar_html
    text,         \* the original text handed to the renderer
    pc,           \* "loop": inside `for err in errors`; "done": returned
    k,            \* number of elements of `errors` consumed so far
    cursor,       \* the local `cursor`
    highlights,   \* the local list `highlights` (vb) / `repaired` (mw)
    kept,         \* the spans the renderer wraps in <a>: `filtered` (vb) / the rendered ones (mw)
    parts,        \* `parts` (vb) / `html_parts` (mw): the pieces joined into the returned markup
    sameTok,      \* history: the claimed token shared by all errors consumed so far
    \* ---- GeminiEngine ----
    use_groq,            \* self.use_groq
    use_gemini,          \* self.use_gemini
    groq_failed_count,   \* self.groq_failed_count
    elapsed,             \* time.time() - self.last_request_time in seconds, min_interval
                         \* standing for any longer time
    since_request,       \* history: the seconds since the last request to a provider
                         \* was sent, min_interval standing for any longer time
    epc,                 \* where the engine call under way stands: "idle" when none
                         \* is, "returned" when it has just returned
    call,                \* history: the engine call under way or just returned
    \* ---- two threads in ask at once (specification SpecC) ----
    threads,             \* for each thread, where it stands in ask and its locals
    hist,                \* history of the requests sent and of the counter updates
    \* ---- _normalise_categories on its own (specification SpecN) ----
    norm                 \* the value handed to _normalise_categories and what it gave

rvars == <<which, text, pc, k, cursor, highlights, kept, parts, sameTok>>

evars == <<use_groq, use_gemini, groq_failed_count, elapsed, since_request, epc, call>>

cvars == <<threads, hist>>

vars == <<which, text, pc, k, cursor, highlights, kept, parts, sameTok,
          use_groq, use_gemini, groq_failed_count, elapsed, since_request, epc, call,
          threads, hist, norm>>

\* ------------------------------------------------------------------ bounds

\* longest text and longest claimed token, in characters
MaxLen == 2

\* longest list of claimed errors
MaxErrs == 2

\* ------------------------------------------------------------- characters

(* The characters of the model: a lower-case letter, its upper-case form,  *)
(* a blank, and U+0130 (capital I with dot above), the one character whose *)
(* str.lower() is two characters long ("i" followed by U+0307).            *)
Chars == {"a", "A", "sp", "Idot"}

SeqsUpTo(S, n) == UNION {[1..m -> S] : m \in 0..n}

Texts == SeqsUpTo(Chars, MaxLen)

\* the characters of a claimed token: letters and blanks
TokChars == {"a", "A", "sp"}

Tokens == SeqsUpTo(TokChars, MaxLen)

Min(a, b) == IF a < b THEN a ELSE b

Max(a, b) == IF a > b THEN a ELSE b

\* str.lower() of one character
LowerChar(c) ==
    CASE c = "A" -> <<"a">>
      [] c = "Idot" -> <<"i", "dot">>
      [] OTHER -> <<c>>

RECURSIVE Lower(_)
\* str.lower()
Lower(s) == IF s = <<>> THEN <<>> ELSE LowerChar(Head(s)) \o Lower(Tail(s))

IsSpace(c) == c = "sp"

RECURSIVE LStrip(_)
LStrip(s) == IF s # <<>> /\ IsSpace(Head(s)) THEN LStrip(Tail(s)) ELSE s

RECURSIVE RStrip(_)
RStrip(s) ==
    IF s # <<>> /\ IsSpace(s[Len(s)]) THEN RStrip(SubSeq(s, 1, Len(s) - 1)) ELSE s

\* str.strip()
Strip(s) == RStrip(LStrip(s))

\* Python s[a:b] for a, b >= 0
Slice(s, a, b) == SubSeq(s, a + 1, Min(b, Len(s)))

\* whether needle lies in hay at Python offset i
MatchAt(hay, needle, i) ==
    /\ i + Len(needle) <= Len(hay)
    /\ \A j \in 1..Len(needle) : hay[i + j] = needle[j]

\* str.find(needle, from) for a non-empty needle and from >= 0
Find(hay, needle, from) ==
    LET hits == {i \in from..(Len(hay) - Len(needle)) : MatchAt(hay, needle, i)}
    IN IF hits = {} THEN -1 ELSE CHOOSE i \in hits : \A j \in hits : i <= j

\* ------------------------------------------------------- claimed errors

\* a start/end that is an integer (or a value int() converts to it)
IntOff(i) == [kind |-> "int", v |-> i]

\* a start/end that is missing or null
None == [kind |-> "none", v |-> 0]

\* a start/end that int() rejects with ValueError (a non-numeric string)
Bad == [kind |-> "bad", v |-> 0]

Offs == {None, Bad} \cup {IntOff(i) : i \in -1..(MaxLen + 1)}

Err(tok, s, e) == [dict |-> TRUE, original |-> tok, start |-> s, end |-> e]

\* an element of `errors` that is not a dict
NotDict == [dict |-> FALSE, original |-> <<>>, start |-> None, end |-> None]

\* every claimed error over the tokens and offsets of the model
AllErrs == {Err(tok, s, e) : tok \in Tokens, s \in Offs, e \in Offs}

(* The claimed errors a list is drawn from: any non-empty token, with the  *)
(* bogus offsets start = 0, end = 0; any offsets with the token missing;   *)
(* and a non-dict element.                                                 *)
ErrDomain ==
    {NotDict}
      \cup {Err(tok, IntOff(0), IntOff(0)) : tok \in Tokens \ {<<>>}}
      \cup {Err(<<>>, s, e) : s \in Offs, e \in Offs}

(* An entry of `highlights` / `repaired`.  by is history, not program state: *)
(* "token" when the entry was placed by searching the claimed token,       *)
(* "offsets" when it was made from the claimed start/end.                  *)
Span(s, e, by) == [start |-> s, end |-> e, by |-> by]

State(c, h) == [cursor |-> c, highlights |-> h]

\* ------------------------------------------- vocab_browser.py, the loop

\* lines 385-392: the token taken from start/end when the error names none
TokenFromOffsets(t, err) ==
    IF err.start.kind = "int" /\ err.end.kind = "int"
          /\ 0 <= err.start.v /\ err.start.v < err.end.v /\ err.end.v <= Len(t)
        THEN Slice(t, err.start.v, err.end.v)
        ELSE <<>>

\* lines 397-403: find the token from the cursor, else from the beginning
SearchVB(t, token, c) ==
    LET idx == Find(Lower(t), Lower(token), c)
    IN IF idx = -1 THEN Find(Lower(t), Lower(token), 0) ELSE idx

\* lines 376-414: one iteration of `for err in errors`
IterVB(t, st, err) ==
    IF err = NotDict THEN st
    ELSE LET stripped == Strip(err.original)
             token == IF stripped # <<>> THEN stripped ELSE TokenFromOffsets(t, err)
             by == IF stripped # <<>> THEN "token" ELSE "offsets"
         IN IF token = <<>> THEN st
            ELSE LET idx == SearchVB(t, token, st.cursor)
                 IN IF idx = -1 THEN st
                    ELSE State(idx + Len(token),
                               Append(st.highlights, Span(idx, idx + Len(token), by)))

\* ---------------------------------------------- main_window.py, the loop

\* lines 1592-1605; None counts as 0
ClampSpan(s0, e0, n) ==
    LET s1 == IF s0 = None THEN 0 ELSE s0.v
        e1 == IF e0 = None THEN 0 ELSE e0.v
        s2 == IF s1 < 0 THEN 0 ELSE s1
        e2 == IF e1 < 0 THEN 0 ELSE e1
        s3 == IF s2 > n THEN n ELSE s2
        e3 == IF e2 > n THEN n ELSE e2
        e4 == IF e3 < s3 THEN s3 ELSE e3
    IN <<s3, e4>>

\* lines 1623-1627: find the token from the cursor
SearchMW(t, token, c) == Find(Lower(t), Lower(token), Max(c, 0))

\* lines 1634-1650: the claimed start/end, clamped and salvaged
FallbackMW(t, st, err) ==
    IF err.start = Bad \/ err.end = Bad THEN st
    ELSE LET n == Len(t)
             c == ClampSpan(err.start, err.end, n)
             s == c[1]
             e == IF s = c[2] /\ s < n THEN s + 1 ELSE c[2]
         IN IF s < e
              THEN State(Max(st.cursor, e), Append(st.highlights, Span(s, e, "offsets")))
              ELSE st

\* IterMW with the claimed offsets trusted before the token is searched
IterMW_OffsetsFirst(t, st, err) ==
    IF err = NotDict THEN st
    ELSE IF err.start.kind = "int" /\ err.end.kind = "int"
              /\ 0 <= err.start.v /\ err.start.v < err.end.v /\ err.end.v <= Len(t)
           THEN State(Max(st.cursor, err.end.v),
                      Append(st.highlights, Span(err.start.v, err.end.v, "offsets")))
    ELSE LET token == Strip(err.original)
             idx == IF token = <<>> THEN -1 ELSE SearchMW(t, token, st.cursor)
         IN IF idx # -1
              THEN State(idx + Len(token),
                         Append(st.highlights, Span(idx, idx + Len(token), "token")))
              ELSE FallbackMW(t, st, err)

\* lines 1610-1650: one iteration of `for err in errors`
IterMW(t, st, err) ==
    IF err = NotDict THEN st
    ELSE LET token == Strip(err.original)
             idx == IF token = <<>> THEN -1 ELSE SearchMW(t, token, st.cursor)
         IN IF idx # -1
              THEN State(idx + Len(token),
                         Append(st.highlights, Span(idx, idx + Len(token), "token")))
              ELSE FallbackMW(t, st, err)

\* -------------------------------------------------- sort and overlaps

\* insert x into the sorted list s after every element with start <= x.start
RECURSIVE InsertByStart(_, _)
InsertByStart(s, x) ==
    IF s = <<>> THEN <<x>>
    ELSE IF x.start < Head(s).start THEN <<x>> \o s
    ELSE <<Head(s)>> \o InsertByStart(Tail(s), x)

RECURSIVE SortByStart(_)
\* list.sort(key=start): stable
SortByStart(s) ==
    IF s = <<>> THEN <<>>
    ELSE InsertByStart(SortByStart(SubSeq(s, 1, Len(s) - 1)), s[Len(s)])

RECURSIVE FilterVB(_, _)
\* vocab_browser.py lines 422-428: keep a highlight that starts at or after last_end
FilterVB(s, last_end) ==
    IF s = <<>> THEN <<>>
    ELSE IF Head(s).start >= last_end
           THEN <<Head(s)>> \o FilterVB(Tail(s), Head(s).end)
           ELSE FilterVB(Tail(s), last_end)

RECURSIVE FilterMW(_, _, _)
\* main_window.py lines 1661-1683: the spans the render loop does not skip
FilterMW(s, pos, n) ==
    IF s = <<>> THEN <<>>
    ELSE LET h == Head(s)
         IN IF h.start < pos THEN FilterMW(Tail(s), pos, n)
            ELSE IF h.start >= h.end \/ h.start > n \/ h.end > n
                   THEN FilterMW(Tail(s), pos, n)
            ELSE <<h>> \o FilterMW(Tail(s), h.end, n)

\* the highlighted token: text[start:end]
WithToken(t, h) ==
    [i \in 1..Len(h) |->
        [start |-> h[i].start, end |-> h[i].end, token |-> Slice(t, h[i].start, h[i].end)]]

\* vocab_browser.py lines 408-428
KeptVB(t, h) == WithToken(t, FilterVB(SortByStart(h), 0))

\* main_window.py lines 1652-1683
KeptMW(t, h) == WithToken(t, FilterMW(SortByStart(h), 0, Len(t)))

\* a piece of the markup is [kind, s]: escaped plain text ("plain"), or a
\* token wrapped in <a> ("link"). html.escape leaves the characters of Chars
\* as they are.

RECURSIVE RenderWithoutRest(_, _, _)
\* the loop of lines 430-451 without lines 453-455: the text after the last
\* highlight is not appended
RenderWithoutRest(t, hs, pos) ==
    IF hs = <<>>
      THEN <<>>
      ELSE LET h == Head(hs)
           IN (IF pos < h.start THEN <<[kind |-> "plain", s |-> Slice(t, pos, h.start)]>> ELSE <<>>)
                \o <<[kind |-> "link", s |-> h.token]>>
                \o RenderWithoutRest(t, Tail(hs), h.end)

RECURSIVE RenderVB(_, _, _)
\* vocab_browser.py lines 430-455: the pieces built from `filtered`, from pos on
RenderVB(t, hs, pos) ==
    IF hs = <<>>
      THEN IF pos < Len(t) THEN <<[kind |-> "plain", s |-> Slice(t, pos, Len(t))]>> ELSE <<>>
      ELSE LET h == Head(hs)
           IN (IF pos < h.start THEN <<[kind |-> "plain", s |-> Slice(t, pos, h.start)]>> ELSE <<>>)
                \o <<[kind |-> "link", s |-> h.token]>>
                \o RenderVB(t, Tail(hs), h.end)

RECURSIVE RenderMW(_, _, _)
\* main_window.py lines 1658-1686: the pieces built from the spans not skipped
RenderMW(t, hs, pos) ==
    IF hs = <<>>
      THEN IF pos < Len(t) THEN <<[kind |-> "plain", s |-> Slice(t, pos, Len(t))]>> ELSE <<>>
      ELSE LET h == Head(hs)
           IN <<[kind |-> "plain", s |-> Slice(t, pos, h.start)], [kind |-> "link", s |-> h.token]>>
                \o RenderMW(t, Tail(hs), h.end)

\* what the renderer joins and returns: vocab_browser.py lines 416-417 hand a
\* text without highlights to _format_text, main_window.py lines 1580-1581
\* and 1652-1653 return "" or the escaped text
Rendered(w, t, h) ==
    IF w = "vb"
      THEN IF h = <<>> THEN <<[kind |-> "plain", s |-> t]>> ELSE RenderVB(t, KeptVB(t, h), 0)
      ELSE IF t = <<>> THEN <<>>
           ELSE IF h = <<>> THEN <<[kind |-> "plain", s |-> t]>> ELSE RenderMW(t, KeptMW(t, h), 0)

\* ---------------------------------------------------------- the actions

Iter(w, t, st, err) == IF w = "vb" THEN IterVB(t, st, err) ELSE IterMW(t, st, err)

Kept(w, t, h) == IF w = "vb" THEN KeptVB(t, h) ELSE KeptMW(t, h)

\* sameTok before any error is consumed
NoTok == <<"none">>

\* sameTok when the history is not kept (specification SpecR)
Untracked == <<"untracked">>

\* sameTok once two consumed errors carried different tokens
Mixed == <<"mixed">>

\* history: the token every consumed error carries, when they all carry one
NextSameTok(err) ==
    IF sameTok = Untracked THEN Untracked
    ELSE IF err = NotDict THEN Mixed
    ELSE IF k = 0 \/ sameTok = err.original THEN err.original
    ELSE Mixed

\* ====================================================================
\* GeminiEngine (gemini_engine.py)
\* ====================================================================

\* line 78
max_failures_before_switch == 3

\* line 76, in seconds
min_interval == 1

\* line 390: the longest comment kept, in characters
comment_limit == 120

\* line 404: the longest last_input of a learning event, in characters
input_limit == 200

\* line 405: the longest last_reply of a learning event, in characters
reply_limit == 400

(* JSON values that occur as a field of an object or as an element of a    *)
(* list.  The content s of a string is a sequence of characters and        *)
(* words, "sp" being a blank.                                              *)
JAbsent == [k |-> "absent", s |-> <<>>, n |-> 0, items |-> <<>>]

JNull == [k |-> "null", s |-> <<>>, n |-> 0, items |-> <<>>]

JNum(n) == [k |-> "num", s |-> <<>>, n |-> n, items |-> <<>>]

JStr(s) == [k |-> "str", s |-> s, n |-> 0, items |-> <<>>]

JList(items) == [k |-> "list", s |-> <<>>, n |-> 0, items |-> items]

(* The value of a JSON text: an object, given by the fields the engine     *)
(* reads (JAbsent for a missing key), or a list, a string, a number, null. *)
Top(type, cats, comment, errors, original, corrected) ==
    [type |-> type, grammar_categories |-> cats, short_comment |-> comment,
     errors |-> errors, original |-> original, corrected |-> corrected]

NoJson == Top("none", JAbsent, JAbsent, JAbsent, JAbsent, JAbsent)

AnalysisObj(cats, comment) == Top("object", cats, comment, JAbsent, JAbsent, JAbsent)

GrammarObj(errors, original, corrected) ==
    Top("object", JAbsent, JAbsent, errors, original, corrected)

NonObj(type) == Top(type, JAbsent, JAbsent, JAbsent, JAbsent, JAbsent)

(* A reply of a provider is a sequence of atoms.  An atom is a piece of    *)
(* text with no line boundary in it:                                       *)
(*   "txt"            ordinary text                                        *)
(*   "[", "ERROR"     text that starts with that                           *)
(*   "[Groq error", "[Gemini error", "[ERROR: No AI service available]"    *)
(*   "fence"          ``` and what follows it on its line                  *)
(*   "sp", "nl"       a blank, a newline                                   *)
(*   "ls"             U+2028: a line boundary for str.splitlines, blank    *)
(*                    for str.strip, legal inside a JSON string, not JSON  *)
(*                    whitespace                                           *)
(*   "json"           a complete JSON text of value v, on one line         *)
(*   "jhead", "jtail" the two parts of a JSON text of value v broken in    *)
(*                    two; instr says the break is inside a string literal *)
Atom(a) == [a |-> a, v |-> NoJson, instr |-> FALSE]

JsonAtom(v) == [a |-> "json", v |-> v, instr |-> FALSE]

JHead(v, instr) == [a |-> "jhead", v |-> v, instr |-> instr]

JTail == Atom("jtail")

IsBlank(x) == x.a \in {"sp", "nl", "ls"}

IsLineBoundary(x) == x.a \in {"nl", "ls"}

\* the atoms whose text starts with the character "["
BracketAtoms == {"[", "[Groq error", "[Gemini error", "[ERROR: No AI service available]"}

\* str.startswith("[")
StartsWithBracket(str) == str # <<>> /\ str[1].a \in BracketAtoms

\* str.startswith("ERROR")
StartsWithERROR(str) == str # <<>> /\ str[1].a = "ERROR"

\* str.startswith("```")
StartsWithFence(str) == str # <<>> /\ str[1].a = "fence"

\* "[Groq error" in str
ContainsGroqError(str) == \E i \in 1..Len(str) : str[i].a = "[Groq error"

RECURSIVE LStripStr(_)
LStripStr(str) == IF str # <<>> /\ IsBlank(Head(str)) THEN LStripStr(Tail(str)) ELSE str

RECURSIVE RStripStr(_)
RStripStr(str) ==
    IF str # <<>> /\ IsBlank(str[Len(str)])
      THEN RStripStr(SubSeq(str, 1, Len(str) - 1))
      ELSE str

\* str.strip()
StripStr(str) == RStripStr(LStripStr(str))

RECURSIVE SplitLines(_, _)
\* str.splitlines(), cur being the line collected so far
SplitLines(str, cur) ==
    IF str = <<>> THEN (IF cur = <<>> THEN <<>> ELSE <<cur>>)
    ELSE IF IsLineBoundary(Head(str)) THEN <<cur>> \o SplitLines(Tail(str), <<>>)
    ELSE SplitLines(Tail(str), Append(cur, Head(str)))

RECURSIVE JoinLines(_)
\* "\n".join(lines)
JoinLines(lines) ==
    IF lines = <<>> THEN <<>>
    ELSE IF Len(lines) = 1 THEN lines[1]
    ELSE lines[1] \o <<Atom("nl")>> \o JoinLines(Tail(lines))

\* lines 346-356
_strip_code_fence(str) ==
    LET s == StripStr(str)
    IN IF ~StartsWithFence(s) THEN s
       ELSE LET lines0 == SplitLines(s, <<>>)
                lines1 == IF Len(lines0) >= 2 /\ StartsWithFence(lines0[1])
                            THEN Tail(lines0) ELSE lines0
                lines2 == IF lines1 # <<>> /\ StartsWithFence(lines1[Len(lines1)])
                            THEN SubSeq(lines1, 1, Len(lines1) - 1) ELSE lines1
            IN StripStr(JoinLines(lines2))

\* the result of an operation that may raise
Ok(x) == [exc |-> FALSE, val |-> x]

Raised(x) == [exc |-> TRUE, val |-> x]

\* JSON whitespace
IsJsonSpace(x) == x.a \in {"sp", "nl"}

RECURSIVE JsonTrim(_)
\* the text without the JSON whitespace around it
JsonTrim(str) ==
    IF str # <<>> /\ IsJsonSpace(Head(str)) THEN JsonTrim(Tail(str))
    ELSE IF str # <<>> /\ IsJsonSpace(str[Len(str)]) THEN JsonTrim(SubSeq(str, 1, Len(str) - 1))
    ELSE str

(* json.loads: the text is a JSON text on one line, or one broken in two   *)
(* by a newline or blank between two tokens, or by a U+2028 inside a       *)
(* string literal; a newline inside a string literal is an invalid control *)
(* character, a U+2028 between tokens is not whitespace.                   *)
json_loads(str) ==
    LET t == JsonTrim(str)
    IN IF Len(t) = 1 /\ t[1].a = "json" THEN Ok(t[1].v)
       ELSE IF /\ Len(t) = 3 /\ t[1].a = "jhead" /\ t[3].a = "jtail"
               /\ \/ ~t[1].instr /\ IsJsonSpace(t[2])
                  \/ t[1].instr /\ t[2].a = "ls"
              THEN Ok(t[1].v)
       ELSE Raised(NoJson)

\* ------------------------------------------- grammar categories (26-38)

GRAMMAR_CATEGORIES ==
    << <<"verb", "_", "tense">>,
       <<"subject", "_", "verb", "_", "agreement">>,
       <<"articles">>,
       <<"prepositions">>,
       <<"word", "_", "order">>,
       <<"plural", "_", "singular">>,
       <<"pronouns">>,
       <<"vocabulary", "_", "choice">>,
       <<"spelling">>,
       <<"punctuation">>,
       <<"other">> >>

\* str.lower() of a word
LowerWord(w) ==
    CASE w = "Verb" -> "verb"
      [] w = "Tense" -> "tense"
      [] w = "Spelling" -> "spelling"
      [] OTHER -> w

\* line 341: c.strip().lower().replace(" ", "_")
NormaliseOne(s) ==
    LET t == Strip(s)
    IN [i \in 1..Len(t) |-> IF t[i] = "sp" THEN "_" ELSE LowerWord(t[i])]

InCategories(c) == \E i \in 1..Len(GRAMMAR_CATEGORIES) : GRAMMAR_CATEGORIES[i] = c

RECURSIVE KeepValid(_)
\* lines 337-343: the loop over cats
KeepValid(items) ==
    IF items = <<>> THEN <<>>
    ELSE LET c == Head(items)
         IN IF c.k # "str" THEN KeepValid(Tail(items))
            ELSE IF InCategories(NormaliseOne(c.s))
                   THEN <<NormaliseOne(c.s)>> \o KeepValid(Tail(items))
                   ELSE KeepValid(Tail(items))

RECURSIVE Dedup(_, _)
\* line 344: list(dict.fromkeys(out))
Dedup(out, seen) ==
    IF out = <<>> THEN <<>>
    ELSE IF Head(out) \in seen THEN Dedup(Tail(out), seen)
    ELSE <<Head(out)>> \o Dedup(Tail(out), seen \cup {Head(out)})

\* `not cats`
Falsy(v) ==
    \/ v.k \in {"absent", "null"}
    \/ v.k = "num" /\ v.n = 0
    \/ v.k = "str" /\ v.s = <<>>
    \/ v.k = "list" /\ v.items = <<>>

\* _normalise_categories without line 344: duplicates are kept
NormaliseKeepingDuplicates(cats) ==
    IF Falsy(cats) THEN Ok(<<>>)
    ELSE IF cats.k = "str" THEN Ok(KeepValid(<<cats>>))
    ELSE IF cats.k = "list" THEN Ok(KeepValid(cats.items))
    ELSE Raised(<<>>)

\* lines 331-344; iterating over a number raises TypeError
_normalise_categories(cats) ==
    IF Falsy(cats) THEN Ok(<<>>)
    ELSE IF cats.k = "str" THEN Ok(Dedup(KeepValid(<<cats>>), {}))
    ELSE IF cats.k = "list" THEN Ok(Dedup(KeepValid(cats.items), {}))
    ELSE Raised(<<>>)

\* ------------------------------------------------------ provider calls

(* What a request to a provider meets: "ok" (HTTP 200 and the expected     *)
(* body, its text being content), "http" (another status), "exc" (timeout  *)
(* or connection error), "shape" (HTTP 200 whose body lacks the fields     *)
(* read).                                                                  *)
Outcome(status, content) == [status |-> status, content |-> content]

Failures == {Outcome(st, <<>>) : st \in {"http", "exc", "shape"}}

\* lines 261-270
_try_groq(out) ==
    IF out.status = "ok" THEN out.content
    ELSE <<Atom("[Groq error"), Atom("txt")>>

\* _try_gemini with a failure text that does not begin with the marker "["
TryGeminiPlainFailure(out) ==
    IF out.status = "ok" THEN out.content
    ELSE <<Atom("Gemini error"), Atom("txt")>>

\* lines 275-288
_try_gemini(out) ==
    IF out.status = "ok" THEN out.content
    ELSE <<Atom("[Gemini error"), Atom("txt")>>

\* lines 292-294: the time _rate_limit sleeps, el being time.time() - last_request_time
RateLimitWait(el) == IF el < min_interval THEN min_interval - el ELSE 0

\* the seconds between the request sent last and one sent after _rate_limit
GapLimited == Min(since_request + RateLimitWait(elapsed), min_interval)

\* how long a request may take, in seconds
Durations == 0..min_interval

(* An entry of the history of the requests of one engine call: the         *)
(* provider, the phase ("main", "analysis" or "grammar"), what the request *)
(* met, the failure count read when the provider was chosen, whether       *)
(* _rate_limit preceded the request, how long it slept, and the seconds    *)
(* between the sending of the request before it and its own (min_interval  *)
(* standing for any longer time, and for no request before it).            *)
Attempt(prov, phase, out, cnt, limited, wait, gap) ==
    [prov |-> prov, phase |-> phase, status |-> out.status, content |-> out.content,
     cnt |-> cnt, limited |-> limited, wait |-> wait, gap |-> gap]

\* ------------------------------------------------- _analyse_grammar

\* the dict _analyse_grammar returns; <<>> and JAbsent stand for a missing key
Info(cats, comment) == [grammar_categories |-> cats, grammar_comment |-> comment]

NoInfo == Info(<<>>, JAbsent)

\* the comment of lines 389-390 without the cut `[:120]`
CommentNotCut(v) ==
    IF v.k = "str" /\ Strip(v.s) # <<>> THEN JStr(Strip(v.s)) ELSE JAbsent

\* lines 384, 389-390
CommentOf(v) ==
    IF v.k = "str" /\ Strip(v.s) # <<>>
      THEN JStr(SubSeq(Strip(v.s), 1, Min(Len(Strip(v.s)), comment_limit)))
      ELSE JAbsent

\* lines 381-391, the body of the try: the dict built, or an exception
ExtractBody(response) ==
    LET obj == json_loads(_strip_code_fence(response))
    IN IF obj.exc THEN Raised(NoInfo)
       ELSE IF obj.val.type # "object" THEN Raised(NoInfo)     \* obj.get: AttributeError
       ELSE LET cats == _normalise_categories(obj.val.grammar_categories)
            IN IF cats.exc THEN Raised(NoInfo)
               ELSE Ok(Info(cats.val, CommentOf(obj.val.short_comment)))

\* lines 380-391 with the exception left to propagate
ExtractNoExcept(response) == ExtractBody(response)

\* lines 380-393: try ... except Exception: return {}
Extract(response) ==
    LET r == ExtractBody(response)
    IN IF r.exc THEN Ok(NoInfo) ELSE r

\* ---------------------------------------------------- check_grammar

\* the dict check_grammar returns; error says whether it has the key "error"
Result(original, corrected, errors, error) ==
    [original |-> original, corrected |-> corrected, errors |-> errors, error |-> error]

NoResult == Result(JAbsent, JAbsent, JAbsent, FALSE)

\* an error response that does not carry the text
GrammarErrorResponseBlank(t) == Result(JStr(<<>>), JStr(<<>>), JList(<<>>), TRUE)

\* lines 233-240
_grammar_error_response(t) == Result(JStr(t), JStr(t), JList(<<>>), TRUE)

(* lines 219-228.  On a list or a string either `"errors" not in result`   *)
(* holds and result["errors"] = [] raises TypeError, or it does not and    *)
(* result["errors"] raises TypeError; on a number or null the `in` raises. *)
ParseGrammar(raw, t) ==
    LET obj == json_loads(_strip_code_fence(raw))
    IN IF obj.exc THEN Raised(NoResult)
       ELSE IF obj.val.type # "object" THEN Raised(NoResult)
       ELSE Ok(Result(
              IF obj.val.original.k = "absent" THEN JStr(t) ELSE obj.val.original,
              IF obj.val.corrected.k = "absent" THEN JStr(t) ELSE obj.val.corrected,
              IF obj.val.errors.k # "list" THEN JList(<<>>) ELSE obj.val.errors,
              FALSE))

(* What check_grammar does with the last request it makes, inside the try: *)
(* lines 190-192 and 219-228 for a 200, lines 202, 204, 214 for another    *)
(* status; requests.post, r.json() and the subscripts may raise.           *)
GrammarBody(out, t) ==
    IF out.status = "ok" THEN ParseGrammar(out.content, t)
    ELSE IF out.status = "http" THEN Ok(_grammar_error_response(t))
    ELSE Raised(NoResult)

\* lines 176-231: try ... except Exception: return self._grammar_error_response(...)
GrammarTry(out, t) ==
    LET r == GrammarBody(out, t)
    IN IF r.exc THEN Ok(_grammar_error_response(t)) ELSE r

\* ------------------------------------------------ the inputs drawn

\* the texts handed to ask and check_grammar
Inputs == {<<"u">>, <<"v">>}

Fence == Atom("fence")

Newline == Atom("nl")

\* a text in a fenced code block: a fence line, the text, a fence line
Fenced(str) == <<Fence, Newline>> \o str \o <<Newline, Fence>>

\* the texts a successful main request may give
MainReplies ==
    { <<Atom("txt")>>,
      <<Atom("[")>>,
      <<Atom("ERROR")>>,
      <<Atom("sp"), Atom("[")>>,
      <<Atom("txt"), Atom("[Groq error")>> }

MainOutcomes == {Outcome("ok", r) : r \in MainReplies} \cup Failures

\* a comment longer than the limit
LongComment == [i \in 1..(comment_limit + 1) |-> "c"]

CatValues ==
    { JAbsent,
      JNum(5),
      JStr(<<"sp", "Verb", "sp", "Tense">>),
      JList(<< JStr(<<"spelling">>), JNum(1), JStr(<<"grammar">>),
               JStr(<<"Spelling", "sp">>), JStr(<<"verb", "_", "tense">>) >>) }

CommentValues ==
    { JAbsent, JNum(1), JStr(<<"sp">>), JStr(<<"sp", "c", "sp">>), JStr(LongComment) }

\* the ways a JSON text of value v is written
JsonTexts(v) ==
    { <<JsonAtom(v)>>,
      <<Atom("sp"), JsonAtom(v), Newline>>,
      <<JHead(v, FALSE), Newline, JTail>>,
      <<JHead(v, TRUE), Atom("ls"), JTail>> }

\* what is not the JSON text of an object
NotObjectTexts ==
    { <<Atom("txt")>>,
      <<Fence, Newline, Atom("txt")>>,
      <<JHead(AnalysisObj(JAbsent, JAbsent), FALSE), Atom("ls"), JTail>>,
      <<JsonAtom(NonObj("list"))>>,
      <<JsonAtom(NonObj("str"))>>,
      <<JsonAtom(NonObj("num"))>>,
      <<JsonAtom(NonObj("null"))>> }

WithFenced(S) == S \cup {Fenced(str) : str \in S}

\* each category value and each comment value, in at least one object
AnalysisObjects ==
    {AnalysisObj(c, JAbsent) : c \in CatValues}
      \cup {AnalysisObj(JAbsent, m) : m \in CommentValues}
      \cup {AnalysisObj(JStr(<<"sp", "Verb", "sp", "Tense">>), JStr(LongComment))}

AnalysisResponses ==
    WithFenced(UNION {JsonTexts(v) : v \in AnalysisObjects}) \cup WithFenced(NotObjectTexts)

AnalysisOutcomes == {Outcome("ok", r) : r \in AnalysisResponses} \cup Failures

GrammarObjects ==
    { GrammarObj(e, o, c) :
        e \in {JAbsent, JNull, JList(<<>>), JList(<<JNull>>)},
        o \in {JAbsent, JNull, JStr(<<"u">>)},
        c \in {JAbsent, JStr(<<"w">>)} }

GrammarResponses ==
    WithFenced(UNION {JsonTexts(v) : v \in GrammarObjects}) \cup WithFenced(NotObjectTexts)

GrammarOutcomes == {Outcome("ok", r) : r \in GrammarResponses} \cup Failures

\* ------------------------------------------------ the state machine

\* the learning event handed to add_learning_event (lines 403-419)
Event(logged, stored, last_input, last_reply, extra) ==
    [logged |-> logged, stored |-> stored, last_input |-> last_input,
     last_reply |-> last_reply, extra |-> extra]

NoEvent == Event(FALSE, FALSE, <<>>, <<>>, NoInfo)

(* The thread a call of the window runs on.  MainWindow._on_enter, the slot *)
(* of returnPressed, calls _append_user_with_grammar itself, which calls    *)
(* check_grammar (main_window.py lines 1705, 1795-1810): the UI thread.     *)
(* Every ask is called from the worker of a threading.Thread (lines 1784,   *)
(* 2098-2105 with 2051, 2141).                                              *)
CallerThread(op) ==
    IF op = "check_grammar" THEN "ui"
    ELSE IF op = "ask" THEN "worker"
    ELSE "none"

\* the history of a call that has just begun, cnt being the failure count then
NewCall(op, input, cnt) ==
    [op |-> op, thread |-> CallerThread(op), input |-> input, count0 |-> cnt,
     attempts |-> <<>>, reply |-> <<>>,
     analysed |-> FALSE, response |-> <<>>, info |-> NoInfo, event |-> NoEvent,
     result |-> NoResult, raised |-> FALSE]

NoCall == NewCall("none", <<>>, 0)

\* lines 96, 178 and 373: the condition under which Groq is tried first
SelectsPrimaryIgnoringCount == use_groq

\* line 96
SelectsPrimaryAsk == use_groq /\ groq_failed_count < max_failures_before_switch

\* line 178
SelectsPrimaryGrammar == use_groq /\ groq_failed_count < max_failures_before_switch

\* line 373
SelectsPrimaryAnalysis == use_groq /\ groq_failed_count < max_failures_before_switch

\* lines 100-110, with the failure count left alone on a failure
CountAfterPrimaryNoIncrement(reply, cnt) == IF ContainsGroqError(reply) THEN cnt ELSE 0

\* lines 100-110: the failure count after the main request to Groq
CountAfterPrimary(reply, cnt) == IF ContainsGroqError(reply) THEN cnt + 1 ELSE 0

\* the engine is not in use
NoEngine ==
    /\ use_groq = FALSE
    /\ use_gemini = FALSE
    /\ groq_failed_count = 0
    /\ elapsed = 0
    /\ since_request = 0
    /\ epc = "off"
    /\ call = NoCall

\* _normalise_categories is not called on its own
NoNorm == norm = <<>>

\* no thread is modelled
NoThreads ==
    /\ threads = <<>>
    /\ hist = <<>>

\* no renderer is in use
NoRender ==
    /\ which = "none"
    /\ text = <<>>
    /\ pc = "off"
    /\ k = 0
    /\ cursor = 0
    /\ highlights = <<>>
    /\ kept = <<>>
    /\ parts = <<>>
    /\ sameTok = <<>>

\* ------------------------------------- the renderers' state machine

InitCall ==
    /\ which \in {"vb", "mw"}
    /\ text \in Texts
    /\ pc = "loop"
    /\ k = 0
    /\ cursor = 0
    /\ highlights = <<>>
    /\ kept = <<>>
    /\ parts = <<>>
    /\ NoEngine
    /\ NoThreads
    /\ NoNorm

InitR == InitCall /\ sameTok = Untracked

InitRT == InitCall /\ sameTok = NoTok

\* the loop consumes the next element of `errors`
ConsumeErr ==
    /\ pc = "loop"
    /\ k < MaxErrs
    /\ \E err \in ErrDomain :
         LET st == Iter(which, text, State(cursor, highlights), err)
         IN /\ cursor' = st.cursor
            /\ highlights' = st.highlights
            /\ sameTok' = NextSameTok(err)
    /\ k' = k + 1
    /\ UNCHANGED <<which, text, pc, kept, parts>>
    /\ UNCHANGED evars
    /\ UNCHANGED cvars
    /\ UNCHANGED norm

\* `errors` is exhausted: sort, drop the overlaps, render, return
Finish ==
    /\ pc = "loop"
    /\ pc' = "done"
    /\ kept' = Kept(which, text, highlights)
    /\ parts' = Rendered(which, text, highlights)
    /\ UNCHANGED <<which, text, k, cursor, highlights, sameTok>>
    /\ UNCHANGED evars
    /\ UNCHANGED cvars
    /\ UNCHANGED norm

NextR == ConsumeErr \/ Finish

\* a call of either renderer on any text and any list of claimed errors
SpecR == InitR /\ [][NextR]_vars

\* the same, with the history of the claimed tokens kept in sameTok
SpecRT == InitRT /\ [][NextR]_vars

\* --------------------------------------- the engine's state machine

\* lines 40-78: at least one of the two keys is set
Init ==
    /\ use_groq \in BOOLEAN
    /\ use_gemini \in BOOLEAN
    /\ use_groq \/ use_gemini
    /\ groq_failed_count = 0
    /\ elapsed = min_interval
    /\ since_request = min_interval
    /\ epc = "idle"
    /\ call = NoCall
    /\ NoRender
    /\ NoThreads
    /\ NoNorm

\* ask, lines 96-110: Groq is tried first
AskPrimary ==
    /\ epc = "idle"
    /\ SelectsPrimaryAsk
    /\ \E input \in Inputs, out \in MainOutcomes, dur \in Durations :
         LET reply == _try_groq(out)
             att == Attempt("groq", "main", out, groq_failed_count, TRUE, RateLimitWait(elapsed), GapLimited)
         IN /\ groq_failed_count' = CountAfterPrimary(reply, groq_failed_count)
            /\ call' = [NewCall("ask", input, groq_failed_count) EXCEPT !.attempts = <<att>>, !.reply = reply]
            /\ epc' = IF ContainsGroqError(reply) /\ use_gemini THEN "ask_fallback" ELSE "ask_reply"
            /\ elapsed' = dur
            /\ since_request' = dur
    /\ UNCHANGED <<use_groq, use_gemini>>
    /\ UNCHANGED rvars
    /\ UNCHANGED cvars
    /\ UNCHANGED norm

\* ask with lines 105-107 turned into a loop that asks Gemini again each
\* time its request fails
AskFallbackRetrying ==
    /\ epc = "ask_fallback"
    /\ \E out \in MainOutcomes, dur \in Durations :
         LET att == Attempt("gemini", "main", out, groq_failed_count, TRUE, RateLimitWait(elapsed), GapLimited)
         IN /\ call' = [call EXCEPT !.attempts = Append(@, att), !.reply = _try_gemini(out)]
            /\ elapsed' = dur
            /\ since_request' = dur
            /\ epc' = IF out.status = "ok" THEN "ask_reply" ELSE "ask_fallback"
    /\ UNCHANGED <<use_groq, use_gemini, groq_failed_count>>
    /\ UNCHANGED rvars
    /\ UNCHANGED cvars
    /\ UNCHANGED norm

\* ask, lines 105-107: Gemini is tried after Groq failed
AskFallback ==
    /\ epc = "ask_fallback"
    /\ \E out \in MainOutcomes, dur \in Durations :
         LET att == Attempt("gemini", "main", out, groq_failed_count, TRUE, RateLimitWait(elapsed), GapLimited)
         IN /\ call' = [call EXCEPT !.attempts = Append(@, att), !.reply = _try_gemini(out)]
            /\ elapsed' = dur
            /\ since_request' = dur
    /\ epc' = "ask_reply"
    /\ UNCHANGED <<use_groq, use_gemini, groq_failed_count>>
    /\ UNCHANGED rvars
    /\ UNCHANGED cvars
    /\ UNCHANGED norm

\* ask, lines 113-114: Gemini alone is tried
AskSecondary ==
    /\ epc = "idle"
    /\ ~SelectsPrimaryAsk
    /\ use_gemini
    /\ \E input \in Inputs, out \in MainOutcomes, dur \in Durations :
         LET att == Attempt("gemini", "main", out, groq_failed_count, TRUE, RateLimitWait(elapsed), GapLimited)
         IN /\ call' = [NewCall("ask", input, groq_failed_count) EXCEPT !.attempts = <<att>>, !.reply = _try_gemini(out)]
            /\ elapsed' = dur
            /\ since_request' = dur
    /\ epc' = "ask_reply"
    /\ UNCHANGED <<use_groq, use_gemini, groq_failed_count>>
    /\ UNCHANGED rvars
    /\ UNCHANGED cvars
    /\ UNCHANGED norm

\* ask, lines 115-116
AskNoService ==
    /\ epc = "idle"
    /\ ~SelectsPrimaryAsk
    /\ ~use_gemini
    /\ \E input \in Inputs :
         call' = [NewCall("ask", input, groq_failed_count) EXCEPT
                    !.reply = <<Atom("[ERROR: No AI service available]")>>]
    /\ epc' = "ask_reply"
    /\ UNCHANGED <<use_groq, use_gemini, groq_failed_count, elapsed, since_request>>
    /\ UNCHANGED rvars
    /\ UNCHANGED cvars
    /\ UNCHANGED norm

\* ask, lines 119-121 and 358-393: the reply is no error, the side call is made
AskAnalyse ==
    /\ epc = "ask_reply"
    /\ ~StartsWithBracket(call.reply)
    /\ ~StartsWithERROR(call.reply)
    /\ IF SelectsPrimaryAnalysis \/ use_gemini
         THEN \E out \in AnalysisOutcomes, dur \in Durations :
                LET prov == IF SelectsPrimaryAnalysis THEN "groq" ELSE "gemini"
                    response == IF prov = "groq" THEN _try_groq(out) ELSE _try_gemini(out)
                    att == Attempt(prov, "analysis", out, groq_failed_count, TRUE,
                                   RateLimitWait(elapsed), GapLimited)
                    r == Extract(response)
                IN /\ call' = [call EXCEPT !.attempts = Append(@, att), !.analysed = TRUE,
                                           !.response = response, !.info = r.val,
                                           !.raised = r.exc]
                   /\ epc' = IF r.exc THEN "returned" ELSE "ask_log"
                   /\ elapsed' = dur
                   /\ since_request' = dur
         ELSE /\ call' = [call EXCEPT !.analysed = TRUE]
              /\ epc' = "ask_log"
              /\ UNCHANGED <<elapsed, since_request>>
    /\ UNCHANGED <<use_groq, use_gemini, groq_failed_count>>
    /\ UNCHANGED rvars
    /\ UNCHANGED cvars
    /\ UNCHANGED norm

\* ask, lines 119-120: the reply is an error, grammar_info stays {}
AskSkipAnalysis ==
    /\ epc = "ask_reply"
    /\ StartsWithBracket(call.reply) \/ StartsWithERROR(call.reply)
    /\ epc' = "ask_log"
    /\ UNCHANGED <<use_groq, use_gemini, groq_failed_count, elapsed, since_request, call>>
    /\ UNCHANGED rvars
    /\ UNCHANGED cvars
    /\ UNCHANGED norm

\* ask with a _log_learning_event that puts the whole input and the whole
\* reply in the payload
AskLogWithoutCut ==
    /\ epc = "ask_log"
    /\ \E stored \in BOOLEAN :
         call' = [call EXCEPT !.event = Event(TRUE, stored, call.input, call.reply, call.info)]
    /\ epc' = "returned"
    /\ UNCHANGED <<use_groq, use_gemini, groq_failed_count, elapsed, since_request>>
    /\ UNCHANGED rvars
    /\ UNCHANGED cvars
    /\ UNCHANGED norm

(* ask, lines 124-131 and 395-419: the payload is built with user_input[:200] *)
(* and reply_text[:400] and handed to add_learning_event, which stores it or  *)
(* not (no user, or an exception that is swallowed); ask returns               *)
AskLog ==
    /\ epc = "ask_log"
    /\ \E stored \in BOOLEAN :
         call' = [call EXCEPT !.event =
                    Event(TRUE, stored,
                          SubSeq(call.input, 1, Min(Len(call.input), input_limit)),
                          SubSeq(call.reply, 1, Min(Len(call.reply), reply_limit)),
                          call.info)]
    /\ epc' = "returned"
    /\ UNCHANGED <<use_groq, use_gemini, groq_failed_count, elapsed, since_request>>
    /\ UNCHANGED rvars
    /\ UNCHANGED cvars
    /\ UNCHANGED norm

\* check_grammar, lines 178-204: Groq is asked first, with no _rate_limit
CheckGrammarPrimary ==
    /\ epc = "idle"
    /\ SelectsPrimaryGrammar
    /\ \E input \in Inputs, out \in GrammarOutcomes, dur \in Durations :
         LET att == Attempt("groq", "grammar", out, groq_failed_count, FALSE, 0, since_request)
             c == [NewCall("check_grammar", input, groq_failed_count) EXCEPT !.attempts = <<att>>]
             r == GrammarTry(out, input)
         IN /\ IF out.status = "http" /\ use_gemini
                 THEN call' = c /\ epc' = "cg_fallback"
                 ELSE call' = [c EXCEPT !.result = r.val, !.raised = r.exc] /\ epc' = "returned"
            /\ elapsed' = Min(elapsed + dur, min_interval)
            /\ since_request' = dur
    /\ UNCHANGED <<use_groq, use_gemini, groq_failed_count>>
    /\ UNCHANGED rvars
    /\ UNCHANGED cvars
    /\ UNCHANGED norm

\* check_grammar, lines 195-202: Gemini is asked after Groq answered a non-200
CheckGrammarFallback ==
    /\ epc = "cg_fallback"
    /\ \E out \in GrammarOutcomes, dur \in Durations :
         LET att == Attempt("gemini", "grammar", out, groq_failed_count, FALSE, 0, since_request)
             r == GrammarTry(out, call.input)
         IN /\ call' = [call EXCEPT !.attempts = Append(@, att), !.result = r.val,
                                    !.raised = r.exc]
            /\ elapsed' = Min(elapsed + dur, min_interval)
            /\ since_request' = dur
    /\ epc' = "returned"
    /\ UNCHANGED <<use_groq, use_gemini, groq_failed_count>>
    /\ UNCHANGED rvars
    /\ UNCHANGED cvars
    /\ UNCHANGED norm

\* check_grammar, lines 207-214: Gemini alone is asked
CheckGrammarSecondary ==
    /\ epc = "idle"
    /\ ~SelectsPrimaryGrammar
    /\ use_gemini
    /\ \E input \in Inputs, out \in GrammarOutcomes, dur \in Durations :
         LET att == Attempt("gemini", "grammar", out, groq_failed_count, FALSE, 0, since_request)
             r == GrammarTry(out, input)
         IN /\ call' = [NewCall("check_grammar", input, groq_failed_count) EXCEPT
                          !.attempts = <<att>>, !.result = r.val, !.raised = r.exc]
            /\ elapsed' = Min(elapsed + dur, min_interval)
            /\ since_request' = dur
    /\ epc' = "returned"
    /\ UNCHANGED <<use_groq, use_gemini, groq_failed_count>>
    /\ UNCHANGED rvars
    /\ UNCHANGED cvars
    /\ UNCHANGED norm

\* check_grammar, lines 215-216
CheckGrammarNoService ==
    /\ epc = "idle"
    /\ ~SelectsPrimaryGrammar
    /\ ~use_gemini
    /\ \E input \in Inputs :
         call' = [NewCall("check_grammar", input, groq_failed_count) EXCEPT
                    !.result = _grammar_error_response(input)]
    /\ epc' = "returned"
    /\ UNCHANGED <<use_groq, use_gemini, groq_failed_count, elapsed, since_request>>
    /\ UNCHANGED rvars
    /\ UNCHANGED cvars
    /\ UNCHANGED norm

\* the caller has what the call returned (or raised); the history starts anew
Deliver ==
    /\ epc = "returned"
    /\ epc' = "idle"
    /\ call' = NoCall
    /\ UNCHANGED <<use_groq, use_gemini, groq_failed_count, elapsed, since_request>>
    /\ UNCHANGED rvars
    /\ UNCHANGED cvars
    /\ UNCHANGED norm

\* a second passes between two calls
Tick ==
    /\ epc = "idle"
    /\ elapsed < min_interval \/ since_request < min_interval
    /\ elapsed' = Min(elapsed + 1, min_interval)
    /\ since_request' = Min(since_request + 1, min_interval)
    /\ UNCHANGED <<use_groq, use_gemini, groq_failed_count, epc, call>>
    /\ UNCHANGED rvars
    /\ UNCHANGED cvars
    /\ UNCHANGED norm

Next ==
    \/ AskPrimary
    \/ AskFallback
    \/ AskSecondary
    \/ AskNoService
    \/ AskAnalyse
    \/ AskSkipAnalysis
    \/ AskLog
    \/ CheckGrammarPrimary
    \/ CheckGrammarFallback
    \/ CheckGrammarSecondary
    \/ CheckGrammarNoService
    \/ Deliver
    \/ Tick

\* one engine, its calls issued one after the other
Spec == Init /\ [][Next]_vars

\* ====================================================================
\* The end of an ask with long texts (specification SpecL)
\* ====================================================================

(* The engine just after line 116 of an ask, the main reply in hand, for an *)
(* input and a reply of 1, of exactly the limit and of one more than the    *)
(* limit characters: Groq answered; or Groq failed and there is no Gemini;  *)
(* or Groq is demoted and there is no Gemini.                               *)
InitL ==
    /\ \E n \in {1, input_limit, input_limit + 1}, m \in {1, reply_limit, reply_limit + 1},
          cnt \in {0, max_failures_before_switch - 1} :
         LET input == [i \in 1..n |-> "u"]
             text_reply == [i \in 1..m |-> Atom("c")]
             answered == Outcome("ok", text_reply)
             failed == Outcome("exc", <<>>)
         IN \/ /\ use_groq = TRUE
               /\ use_gemini \in BOOLEAN
               /\ groq_failed_count = 0
               /\ elapsed \in Durations
               /\ call = [NewCall("ask", input, cnt) EXCEPT
                            !.attempts = <<Attempt("groq", "main", answered, cnt, TRUE, 0, min_interval)>>,
                            !.reply = _try_groq(answered)]
            \/ /\ use_groq = TRUE
               /\ use_gemini = FALSE
               /\ groq_failed_count = cnt + 1
               /\ elapsed \in Durations
               /\ m = 1
               /\ call = [NewCall("ask", input, cnt) EXCEPT
                            !.attempts = <<Attempt("groq", "main", failed, cnt, TRUE, 0, min_interval)>>,
                            !.reply = _try_groq(failed)]
            \/ /\ use_groq = TRUE
               /\ use_gemini = FALSE
               /\ groq_failed_count = max_failures_before_switch
               /\ elapsed = min_interval
               /\ m = 1
               /\ cnt = 0
               /\ call = [NewCall("ask", input, max_failures_before_switch) EXCEPT
                            !.reply = <<Atom("[ERROR: No AI service available]")>>]
    /\ since_request = elapsed
    /\ epc = "ask_reply"
    /\ NoRender
    /\ NoThreads
    /\ NoNorm

\* the rest of the ask: lines 118-131
NextL == AskAnalyse \/ AskSkipAnalysis \/ AskLog \/ Deliver

SpecL == InitL /\ [][NextL]_vars

\* ====================================================================
\* _normalise_categories on its own (specification SpecN)
\* ====================================================================

\* longest list handed to _normalise_categories
MaxCats == 3

(* What a list of grammar_categories can hold: names of the vocabulary as  *)
(* they are and in other case and spacing, an unknown name, a number, null *)
CatItems ==
    { JStr(<<"spelling">>), JStr(<<"Spelling", "sp">>), JStr(<<"verb", "_", "tense">>),
      JStr(<<"sp", "Verb", "sp", "Tense">>), JStr(<<"grammar">>), JNum(1), JNull }

\* the lists of at most n items
CatLists(n) == UNION { [1..m -> CatItems] : m \in 0..n }

(* The values of grammar_categories: a list, a string alone (the empty one *)
(* too), and what is neither: nothing, a number                            *)
NormInputs ==
    { JList(l) : l \in CatLists(MaxCats) }
      \cup { c \in CatItems : c.k = "str" }
      \cup { JStr(<<>>), JStr(<<"sp">>), JAbsent, JNum(5) }

\* a value is about to be handed to _normalise_categories
InitN ==
    /\ norm \in { [cats |-> v, applied |-> FALSE, result |-> Ok(<<>>)] : v \in NormInputs }
    /\ NoRender
    /\ NoEngine
    /\ NoThreads

\* lines 331-344: _normalise_categories(cats) returns, or raises
Normalise ==
    /\ norm # <<>>
    /\ ~norm.applied
    /\ norm' = [norm EXCEPT !.applied = TRUE, !.result = _normalise_categories(norm.cats)]
    /\ UNCHANGED rvars
    /\ UNCHANGED evars
    /\ UNCHANGED cvars

NextN == Normalise

SpecN == InitN /\ [][NextN]_vars

\* ====================================================================
\* Two threads in ask at once (specification SpecC)
\* ====================================================================

(* MainWindow starts a thread for every ask: the worker of _on_enter and   *)
(* the worker of the vocabulary explanation share one GeminiEngine, which  *)
(* holds no lock.  Each thread below runs one ask; a step is one access to *)
(* the shared fields of the engine (or to the network) with the local work *)
(* around it.  The replies matter only as far as they are errors or not.   *)
Threads == {"t1", "t2"}

(* A thread: where it stands, the request it is about ("main" or           *)
(* "analysis", to "groq" or "gemini"), the locals of _rate_limit (el, the  *)
(* elapsed time it computed; rem, the seconds it still sleeps), the value  *)
(* of groq_failed_count it read for `+= 1`, and (history) whether the      *)
(* counter was reset to 0 since it read that value.                        *)
Thread(p, phase, prov, el, rem, tmp, stale) ==
    [pc |-> p, phase |-> phase, prov |-> prov, el |-> el, rem |-> rem,
     tmp |-> tmp, stale |-> stale]

IdleThread == Thread("idle", "none", "none", 0, 0, 0, FALSE)

(* History: the failure count at the start, the number of requests sent,   *)
(* the smallest time between two requests sent one after the other         *)
(* (min_interval standing for any longer time), the main requests to Groq  *)
(* that failed and that succeeded, and whether an increment computed from  *)
(* a value read before a reset to 0 was written after it.                  *)
History(count0, sent, min_gap, pfailed, psucceeded, overwrote) ==
    [count0 |-> count0, sent |-> sent, min_gap |-> min_gap, pfailed |-> pfailed,
     psucceeded |-> psucceeded, overwrote |-> overwrote]

\* the engine as calls issued one after the other through _try_groq and
\* _try_gemini leave it, two threads about to call ask
InitC ==
    /\ use_groq \in BOOLEAN
    /\ use_gemini \in BOOLEAN
    /\ use_groq \/ use_gemini
    /\ groq_failed_count \in 0..max_failures_before_switch
    /\ use_groq \/ groq_failed_count = 0
    /\ elapsed \in 0..min_interval
    /\ since_request = elapsed
    /\ epc = "off"
    /\ call = NoCall
    /\ threads = [t \in Threads |-> IdleThread]
    /\ hist = History(groq_failed_count, 0, min_interval, 0, 0, FALSE)
    /\ NoRender
    /\ NoNorm

\* the thread is about to send a request through _try_groq or _try_gemini
ToRequest(th, phase, prov) == [th EXCEPT !.pc = "rl_read", !.phase = phase, !.prov = prov]

\* ask, lines 96, 113, 115: the provider of the main reply is chosen
TStart(t) ==
    /\ threads[t].pc = "idle"
    /\ threads' = [threads EXCEPT ![t] =
                     IF SelectsPrimaryAsk THEN ToRequest(@, "main", "groq")
                     ELSE IF use_gemini THEN ToRequest(@, "main", "gemini")
                     ELSE [@ EXCEPT !.pc = "log"]]
    /\ UNCHANGED <<use_groq, use_gemini, groq_failed_count, elapsed, since_request, epc, call, hist>>
    /\ UNCHANGED rvars
    /\ UNCHANGED norm

\* _rate_limit, lines 292-294: last_request_time is read, the sleep begins
TRateRead(t) ==
    /\ threads[t].pc = "rl_read"
    /\ threads' = [threads EXCEPT ![t] =
                     [@ EXCEPT !.pc = "rl_sleep", !.el = elapsed, !.rem = RateLimitWait(elapsed)]]
    /\ UNCHANGED <<use_groq, use_gemini, groq_failed_count, elapsed, since_request, epc, call, hist>>
    /\ UNCHANGED rvars
    /\ UNCHANGED norm

\* _rate_limit, line 295: the sleep is over, last_request_time is written
TRateWrite(t) ==
    /\ threads[t].pc = "rl_sleep"
    /\ threads[t].rem = 0
    /\ elapsed' = 0
    /\ threads' = [threads EXCEPT ![t] = [@ EXCEPT !.pc = "post"]]
    /\ UNCHANGED <<use_groq, use_gemini, groq_failed_count, since_request, epc, call, hist>>
    /\ UNCHANGED rvars
    /\ UNCHANGED norm

\* lines 263, 277: the request is sent
TPost(t) ==
    /\ threads[t].pc = "post"
    /\ hist' = [hist EXCEPT !.sent = @ + 1, !.min_gap = Min(@, since_request)]
    /\ since_request' = 0
    /\ threads' = [threads EXCEPT ![t] = [@ EXCEPT !.pc = "reply"]]
    /\ UNCHANGED <<use_groq, use_gemini, groq_failed_count, elapsed, epc, call>>
    /\ UNCHANGED rvars
    /\ UNCHANGED norm

\* the threads that hold a value of the counter read before a reset to 0
MarkStale(ths) ==
    [u \in Threads |-> IF ths[u].pc = "inc_write" THEN [ths[u] EXCEPT !.stale = TRUE] ELSE ths[u]]

(* The request is answered, or fails.  Lines 100 and 108-110 for the main  *)
(* request to Groq: an answer resets the counter, a failure leads to       *)
(* line 101.  Line 120 for the main request to Gemini.  Line 121 for the   *)
(* side call, whose answer changes nothing here.                           *)
TReply(t) ==
    /\ threads[t].pc = "reply"
    /\ \E ok \in BOOLEAN :
         IF threads[t].phase = "main" /\ threads[t].prov = "groq"
           THEN IF ok
                  THEN /\ groq_failed_count' = 0
                       /\ hist' = [hist EXCEPT !.psucceeded = @ + 1]
                       /\ threads' = [MarkStale(threads) EXCEPT ![t] = [@ EXCEPT !.pc = "a_select"]]
                  ELSE /\ hist' = [hist EXCEPT !.pfailed = @ + 1]
                       /\ threads' = [threads EXCEPT ![t] = [@ EXCEPT !.pc = "inc_read"]]
                       /\ UNCHANGED groq_failed_count
           ELSE /\ threads' = [threads EXCEPT ![t] =
                                 [@ EXCEPT !.pc = IF threads[t].phase = "main" /\ ok
                                                    THEN "a_select" ELSE "log"]]
                /\ UNCHANGED <<groq_failed_count, hist>>
    /\ UNCHANGED <<use_groq, use_gemini, elapsed, since_request, epc, call>>
    /\ UNCHANGED rvars
    /\ UNCHANGED norm

\* line 101, `self.groq_failed_count += 1`: the counter is read
TIncRead(t) ==
    /\ threads[t].pc = "inc_read"
    /\ threads' = [threads EXCEPT ![t] =
                     [@ EXCEPT !.pc = "inc_write", !.tmp = groq_failed_count, !.stale = FALSE]]
    /\ UNCHANGED <<use_groq, use_gemini, groq_failed_count, elapsed, since_request, epc, call, hist>>
    /\ UNCHANGED rvars
    /\ UNCHANGED norm

\* line 101: the sum is written; lines 105-107: Gemini is tried if configured
TIncWrite(t) ==
    /\ threads[t].pc = "inc_write"
    /\ groq_failed_count' = threads[t].tmp + 1
    /\ hist' = [hist EXCEPT !.overwrote = @ \/ threads[t].stale]
    /\ threads' = [threads EXCEPT ![t] =
                     IF use_gemini THEN ToRequest(@, "main", "gemini")
                     ELSE [@ EXCEPT !.pc = "log"]]
    /\ UNCHANGED <<use_groq, use_gemini, elapsed, since_request, epc, call>>
    /\ UNCHANGED rvars
    /\ UNCHANGED norm

\* _analyse_grammar, lines 373-378: the provider of the side call is chosen
TAnalysisSelect(t) ==
    /\ threads[t].pc = "a_select"
    /\ threads' = [threads EXCEPT ![t] =
                     IF SelectsPrimaryAnalysis THEN ToRequest(@, "analysis", "groq")
                     ELSE IF use_gemini THEN ToRequest(@, "analysis", "gemini")
                     ELSE [@ EXCEPT !.pc = "log"]]
    /\ UNCHANGED <<use_groq, use_gemini, groq_failed_count, elapsed, since_request, epc, call, hist>>
    /\ UNCHANGED rvars
    /\ UNCHANGED norm

\* lines 124-131: the event is logged and ask returns
TLog(t) ==
    /\ threads[t].pc = "log"
    /\ threads' = [threads EXCEPT ![t] = [@ EXCEPT !.pc = "done"]]
    /\ UNCHANGED <<use_groq, use_gemini, groq_failed_count, elapsed, since_request, epc, call, hist>>
    /\ UNCHANGED rvars
    /\ UNCHANGED norm

\* a second passes
TickC ==
    /\ \/ elapsed < min_interval
       \/ since_request < min_interval
       \/ \E t \in Threads : threads[t].rem > 0
    /\ elapsed' = Min(elapsed + 1, min_interval)
    /\ since_request' = Min(since_request + 1, min_interval)
    /\ threads' = [t \in Threads |-> [threads[t] EXCEPT !.rem = Max(@ - 1, 0)]]
    /\ UNCHANGED <<use_groq, use_gemini, groq_failed_count, epc, call, hist>>
    /\ UNCHANGED rvars
    /\ UNCHANGED norm

NextC ==
    \/ \E t \in Threads :
         \/ TStart(t)
         \/ TRateRead(t)
         \/ TRateWrite(t)
         \/ TPost(t)
         \/ TReply(t)
         \/ TIncRead(t)
         \/ TIncWrite(t)
         \/ TAnalysisSelect(t)
         \/ TLog(t)
    \/ TickC

\* two threads, each in one ask, interleaved at will
SpecC == InitC /\ [][NextC]_vars

\* ====================================================================
\* Properties of span reconciliation (specification SpecR)
\* ====================================================================

\* two characters that differ at most in case
SameLetter(c, d) == LowerChar(c) = LowerChar(d)

\* the token occurs in the text at Python offset i, compared case-insensitively
OccursAt(t, tok, i) ==
    /\ i + Len(tok) <= Len(t)
    /\ \A j \in 1..Len(tok) : SameLetter(t[i + j], tok[j])

Occurrences(t, tok) == {i \in 0..Len(t) : OccursAt(t, tok, i)}

RECURSIVE FirstOccurrences(_, _, _, _)
\* the first n non-overlapping occurrences of tok in t at or after from, left to right
FirstOccurrences(t, tok, from, n) ==
    LET next == {i \in Occurrences(t, tok) : i >= from}
    IN IF n = 0 \/ next = {} THEN <<>>
       ELSE LET i == CHOOSE x \in next : \A y \in next : x <= y
            IN <<i>> \o FirstOccurrences(t, tok, i + Len(tok), n - 1)

\* the span of an occurrence, with the token as the text spells it
SpanAt(t, tok, i) ==
    [start |-> i, end |-> i + Len(tok), token |-> Slice(t, i, i + Len(tok))]

\* a claimed token proper: not empty, no blanks around it
IsRealToken(tok) == tok \in Tokens /\ tok # <<>> /\ Strip(tok) = tok

SpansWellFormed(h, n) ==
    /\ \A i \in 1..Len(h) : 0 <= h[i].start /\ h[i].start < h[i].end /\ h[i].end <= n
    /\ \A i \in 1..(Len(h) - 1) : h[i].start <= h[i + 1].start /\ h[i].end <= h[i + 1].start

\* C1: the spans either renderer keeps are sorted by start, do not overlap
\* (end[i] <= start[i+1]) and satisfy 0 <= start < end <= len(text).
C1_KeptSpansWellFormed == pc = "done" => SpansWellFormed(kept, Len(text))

\* C7: a single claimed error whose token occurs exactly once in the text
\* (case-insensitively) is kept as exactly one span, at that occurrence, and
\* the token rendered is the text's own substring there.
C7_SingleOccurrenceAnchored ==
    (pc = "done" /\ k = 1 /\ IsRealToken(sameTok)
        /\ Cardinality(Occurrences(text, sameTok)) = 1)
      => \E i \in Occurrences(text, sameTok) : kept = <<SpanAt(text, sameTok, i)>>

\* C8: k claimed errors carrying the same token, which occurs at least k
\* times without overlap, are kept as k spans at the first k occurrences, the
\* i-th error at the i-th occurrence.
C8_RepeatedTokenAnchoredInOrder ==
    (pc = "done" /\ k >= 1 /\ IsRealToken(sameTok)
        /\ Len(FirstOccurrences(text, sameTok, 0, k)) = k)
      => LET occ == FirstOccurrences(text, sameTok, 0, k)
         IN /\ kept = [i \in 1..k |-> SpanAt(text, sameTok, occ[i])]
            /\ Len(highlights) = k
            /\ \A i \in 1..k :
                 highlights[i] = Span(occ[i], occ[i] + Len(sameTok), "token")

\* the loop's search finds the claimed token at or after the cursor
FoundFromCursor(t, tok, c) ==
    Strip(tok) # <<>> /\ Find(Lower(t), Lower(Strip(tok)), Max(c, 0)) # -1

\* C9: the claimed start/end of an error whose non-empty token is found at or
\* after the cursor do not influence the loop: whatever they are, the
\* iteration leaves the same cursor and the same list of spans (so two lists
\* that differ only in such offsets are reconciled to the same spans).
C9_OffsetsIgnoredWhenTokenFound ==
    (pc = "loop" /\ k < MaxErrs) =>
      \A tok \in Tokens :
        FoundFromCursor(text, tok, cursor) =>
          \A s \in Offs, e \in Offs :
            Iter(which, text, State(cursor, highlights), Err(tok, s, e))
              = Iter(which, text, State(cursor, highlights), Err(tok, None, None))

\* C9 witness: a single error with a token and the bogus offsets start = 0,
\* end = 0 (the only offsets ErrDomain gives an error with a token) was placed
\* by its token on the text " a" and is kept as the single span [1, 2).
C9_Witness ==
    /\ pc = "done" /\ k = 1 /\ which = "mw"
    /\ text = <<"sp", "a">>
    /\ highlights = <<Span(1, 2, "token")>>
    /\ kept = <<SpanAt(text, <<"a">>, 1)>>

\* x brought into [0, n]
Clamped(x, n) == IF x < 0 THEN 0 ELSE IF x > n THEN n ELSE x

(* What the claimed start/end give on a text of n characters: both         *)
(* clamped, end raised to start, an empty range before the end of the text *)
(* extended by one character; <<>> when nothing is left (start >= end).    *)
OffsetsSpan(s, e, n) ==
    LET s1 == Clamped(s, n)
        e1 == IF Clamped(e, n) < s1 THEN s1 ELSE Clamped(e, n)
        e2 == IF s1 = e1 /\ s1 < n THEN s1 + 1 ELSE e1
    IN IF s1 < e2 THEN <<[start |-> s1, end |-> e2]>> ELSE <<>>

\* the entries of `highlights`, without the history
Bare(h) == [i \in 1..Len(h) |-> [start |-> h[i].start, end |-> h[i].end]]

\* C23: an error whose token is absent, or occurs nowhere in the text, is
\* reconciled from its claimed start/end: clamped to [0, len(text)], end
\* raised to start, an empty range before the end of the text extended by one
\* character; its span is added only if start < end then, else the error is
\* dropped; and no span of zero length is ever added.
C23_FallbackToClampedOffsets ==
    /\ \A i \in 1..Len(highlights) : highlights[i].start < highlights[i].end
    /\ (pc = "loop" /\ k < MaxErrs) =>
         \A tok \in Tokens, s \in -1..(MaxLen + 1), e \in -1..(MaxLen + 1) :
           (Strip(tok) = <<>> \/ Occurrences(text, Strip(tok)) = {}) =>
             Bare(Iter(which, text, State(cursor, highlights),
                       Err(tok, IntOff(s), IntOff(e))).highlights)
               = Bare(highlights) \o OffsetsSpan(s, e, Len(text))

\* the step added a span placed by searching the claimed token
AddsTokenSpan ==
    /\ Len(highlights') = Len(highlights) + 1
    /\ highlights'[Len(highlights')].by = "token"

\* C24: the cursor is 0 when the loop over the claimed errors begins and
\* never decreases, and a span placed by searching a token begins at or after
\* the cursor held before its error was processed.
C24_CursorMonotonic ==
    /\ []((pc = "loop" /\ k = 0) => cursor = 0)
    /\ [][/\ cursor' >= cursor
          /\ AddsTokenSpan => highlights'[Len(highlights')].start >= cursor]_vars

RECURSIVE Joined(_)
\* the characters of the pieces, in order
Joined(ps) == IF ps = <<>> THEN <<>> ELSE Head(ps).s \o Joined(Tail(ps))

\* the pieces that are wrapped in <a>
Links(ps) == SelectSeq(ps, LAMBDA p : p.kind = "link")

Returned(op) == epc = "returned" /\ call.op = op

IsMainAttempt(a) == a.phase \in {"main", "grammar"}

\* the requests made for the main reply of ask, or by check_grammar
MainAttempts == SelectSeq(call.attempts, IsMainAttempt)

IsGeminiAttempt(a) == a.prov = "gemini"

\* the request met a failure: a non-200 status, an exception, a bad body
Failed(a) == a.status # "ok"

\* the first request of its operation (ask, the side call, check_grammar)
FirstOfPhase(i) == i = 1 \/ call.attempts[i - 1].phase # call.attempts[i].phase

\* C2: in an ask begun with a failure count of 0 and both providers
\* configured, when the request to Groq fails and no request to Gemini fails,
\* Groq is asked first, Gemini is then asked for the main reply and is asked
\* exactly once in the whole call, ask returns Gemini's text, and the failure
\* count is left at exactly 1, below the threshold.
C2_FailoverOnFirstFailure ==
    (/\ Returned("ask")
     /\ use_groq /\ use_gemini
     /\ call.count0 = 0
     /\ \E i \in 1..Len(call.attempts) :
          /\ call.attempts[i].prov = "groq"
          /\ call.attempts[i].phase = "main"
          /\ Failed(call.attempts[i])
     /\ \A i \in 1..Len(call.attempts) :
          call.attempts[i].prov = "gemini" => ~Failed(call.attempts[i]))
      => /\ Len(MainAttempts) = 2
         /\ call.attempts[1] = MainAttempts[1]
         /\ MainAttempts[1].prov = "groq"
         /\ MainAttempts[2].prov = "gemini"
         /\ Len(SelectSeq(call.attempts, IsGeminiAttempt)) = 1
         /\ call.reply = MainAttempts[2].content
         /\ groq_failed_count = 1
         /\ groq_failed_count < max_failures_before_switch
         /\ ~call.raised

\* C2 witness: Groq failed, Gemini answered, the side call then went to Groq
\* again, and ask returned Gemini's text with the count at 1.
C2_Witness ==
    /\ Returned("ask")
    /\ use_groq /\ use_gemini
    /\ call.count0 = 0
    /\ Len(call.attempts) = 3
    /\ call.attempts[1].prov = "groq" /\ call.attempts[1].status = "exc"
    /\ call.attempts[2].prov = "gemini" /\ call.attempts[2].status = "ok"
    /\ call.attempts[3].prov = "groq" /\ call.attempts[3].phase = "analysis"
    /\ call.reply = <<Atom("txt")>>
    /\ groq_failed_count = 1

\* C3: with both providers configured, the first provider an operation
\* (ask, the side call, check_grammar) asks is Groq if and only if the
\* failure count it read was below max_failures_before_switch, and no
\* request at all goes to Groq once the count has reached the threshold.
C3_PrimaryFirstIffBelowThreshold ==
    /\ (use_groq /\ use_gemini) =>
         \A i \in 1..Len(call.attempts) :
           FirstOfPhase(i) =>
             (call.attempts[i].prov = "groq"
                <=> call.attempts[i].cnt < max_failures_before_switch)
    /\ \A i \in 1..Len(call.attempts) :
         call.attempts[i].prov = "groq" => call.attempts[i].cnt < max_failures_before_switch

\* C3 witness: an ask begun with a count of 2 asked Groq first, which failed
\* for the third time; Gemini gave the reply and, Groq being demoted by then,
\* the side call of the same ask went to Gemini.
C3_Witness ==
    /\ Returned("ask")
    /\ use_groq /\ use_gemini
    /\ call.count0 = 2
    /\ groq_failed_count = max_failures_before_switch
    /\ Len(call.attempts) = 3
    /\ call.attempts[1].prov = "groq" /\ call.attempts[1].cnt = 2
    /\ call.attempts[2].prov = "gemini" /\ call.attempts[2].phase = "main"
    /\ call.attempts[3].prov = "gemini" /\ call.attempts[3].phase = "analysis"
    /\ call.attempts[3].cnt = max_failures_before_switch

\* the text, once its fence is stripped, is the JSON text of an object
LoadsObject(str) ==
    LET obj == json_loads(_strip_code_fence(str))
    IN ~obj.exc /\ obj.val.type = "object"

\* a stage of check_grammar failed: no provider, or the last request met a
\* failure, or what it gave is not the JSON text of an object
GrammarFailed ==
    \/ call.attempts = <<>>
    \/ Failed(call.attempts[Len(call.attempts)])
    \/ ~LoadsObject(call.attempts[Len(call.attempts)].content)

\* C4: whenever a stage of check_grammar fails, check_grammar returns, without
\* raising, a result whose original and corrected are the input text and
\* whose errors list is empty.
C4_GrammarFailureGivesFallback ==
    (Returned("check_grammar") /\ GrammarFailed)
      => /\ ~call.raised
         /\ call.result.original = JStr(call.input)
         /\ call.result.corrected = JStr(call.input)
         /\ call.result.errors = JList(<<>>)

\* C4 witness: Groq answered a non-200, Gemini answered text that is no JSON,
\* and check_grammar returned the input text unchanged with no errors.
C4_Witness ==
    /\ Returned("check_grammar")
    /\ call.input = <<"v">>
    /\ Len(call.attempts) = 2
    /\ call.attempts[1].prov = "groq" /\ call.attempts[1].status = "http"
    /\ call.attempts[2].prov = "gemini" /\ call.attempts[2].status = "ok"
    /\ call.attempts[2].content = <<Atom("txt")>>
    /\ call.result = Result(JStr(<<"v">>), JStr(<<"v">>), JList(<<>>), TRUE)

\* the text holds no JSON at all
NonJson(str) == \A i \in 1..Len(str) : str[i].a \notin {"json", "jhead", "jtail"}

\* C5: _analyse_grammar never lets an exception out: whatever the provider
\* answered, ask goes on with a dictionary, and that dictionary is empty when
\* the answer is not JSON or is JSON that is not an object.
C5_ExtractorNeverRaises ==
    (call.op = "ask" /\ call.analysed)
      => /\ ~call.raised
         /\ epc \in {"ask_log", "returned"}
         /\ NonJson(call.response) => call.info = NoInfo
         /\ ~LoadsObject(call.response) => call.info = NoInfo

\* C5 witness: the side call was answered by the JSON text of an object whose
\* grammar_categories is a number; iterating over it raises, and ask went on
\* with an empty dictionary and logged its event.
C5_Witness ==
    /\ Returned("ask")
    /\ call.analysed
    /\ call.response = <<JsonAtom(AnalysisObj(JNum(5), JAbsent))>>
    /\ call.info = NoInfo
    /\ call.event.logged
    /\ ~call.raised

\* the text is the JSON text of an object, with no fence around it
IsObjectText(str) ==
    /\ ~StartsWithFence(StripStr(str))
    /\ ~json_loads(str).exc
    /\ json_loads(str).val.type = "object"

\* C6: when the side call is answered by the JSON text J of an object, the
\* analysis is the one that J inside a fenced code block gives.
C6_FencedSameAsUnwrapped ==
    (call.op = "ask" /\ call.analysed /\ Len(call.attempts) > 0
        /\ ~Failed(call.attempts[Len(call.attempts)])
        /\ IsObjectText(call.response))
      => Extract(Fenced(call.response)).val = call.info

\* C10: the requests made for the main reply of one ask, or by one
\* check_grammar, are at most two, no provider is asked twice, and Gemini is
\* asked only after the request to Groq of that call failed, or first when
\* Groq is not configured or is demoted.
C10_AtMostOneFailoverHop ==
    (Returned("ask") \/ Returned("check_grammar"))
      => /\ Len(MainAttempts) <= 2
         /\ \A i, j \in 1..Len(MainAttempts) :
              MainAttempts[i].prov = MainAttempts[j].prov => i = j
         /\ \A i \in 1..Len(MainAttempts) :
              MainAttempts[i].prov = "gemini" =>
                \/ i = 2 /\ MainAttempts[1].prov = "groq" /\ Failed(MainAttempts[1])
                \/ i = 1 /\ (~use_groq \/ call.count0 >= max_failures_before_switch)

\* C11: with the calls issued one after the other, every request to a
\* provider is sent at least min_interval after the request sent before it.
C11_RequestsSpacedByMinInterval ==
    \A i \in 1..Len(call.attempts) : call.attempts[i].gap >= min_interval

\* the step sends a request: the history of the call gains an attempt
SendsRequest ==
    /\ call'.attempts # <<>>
    /\ call'.attempts # call.attempts

\* the attempt a step has just recorded
NewAttempt == call'.attempts[Len(call'.attempts)]

\* C14: after every request to Groq, whichever operation made it (ask, the
\* side call, check_grammar), the failure count is 0 if the request succeeded
\* and one more than before if it failed.
C14_EveryPrimaryAttemptUpdatesHealth ==
    [][(SendsRequest /\ NewAttempt.prov = "groq")
         => groq_failed_count' = IF Failed(NewAttempt) THEN groq_failed_count + 1 ELSE 0]_vars

\* ask sends its main request to Groq and Groq's answer counts as a success
AskPrimarySucceeds == AskPrimary /\ groq_failed_count' = 0

\* the engine between two calls, with any failure count the calls before
\* can have left (lines 101 and 110)
InitBetweenCalls ==
    /\ use_groq \in BOOLEAN
    /\ use_gemini \in BOOLEAN
    /\ use_groq \/ use_gemini
    /\ groq_failed_count \in 0..max_failures_before_switch
    /\ use_groq \/ groq_failed_count = 0
    /\ elapsed = min_interval
    /\ since_request = min_interval
    /\ epc = "idle"
    /\ call = NoCall
    /\ NoRender
    /\ NoThreads
    /\ NoNorm

(* The calls issued one after the other by a user who never stops, with     *)
(* providers that favour the claim: some step is always taken, and Groq     *)
(* answers one of the requests of ask if ask turns to it again and again.   *)
SpecFair ==
    /\ InitBetweenCalls
    /\ [][Next]_vars
    /\ WF_vars(Next)
    /\ SF_vars(AskPrimarySucceeds)

\* Groq is demoted: its failure count has reached the threshold
Demoted == groq_failed_count >= max_failures_before_switch

\* C15: once the failure count of Groq has reached the threshold, the calls
\* issued one after the other lead to a state in which Groq has answered,
\* its count is 0 and it is the first provider asked again.
C15_DemotedPrimaryPromotedBack ==
    Demoted ~> (groq_failed_count = 0 /\ SelectsPrimaryAsk)

\* no step of any call takes the count of a demoted Groq back under the
\* threshold
DemotionIsPermanent == [][Demoted => Demoted']_vars

\* what the provider answered to a recorded request
OutcomeOf(a) == Outcome(a.status, a.content)

\* the request failed in transport (timeout, connection) or was rejected
\* with a status other than 200
TransportOrRejected(a) == a.status \in {"exc", "http"}

\* what the call returned is what its second request gave
ReturnsSecondOutcome ==
    IF call.op = "ask"
      THEN call.reply = _try_gemini(OutcomeOf(MainAttempts[2]))
      ELSE /\ ~call.raised
           /\ call.result = GrammarTry(OutcomeOf(MainAttempts[2]), call.input).val

\* C16: in ask and in check_grammar alike, when the first request goes to
\* Groq and fails in transport or with a non-200 status while Gemini is
\* configured, the call makes exactly one more request, to Gemini, and
\* returns what that request gave.
C16_RetriesOnceOnSecondProvider ==
    (/\ Returned("ask") \/ Returned("check_grammar")
     /\ use_gemini
     /\ MainAttempts # <<>>
     /\ MainAttempts[1].prov = "groq"
     /\ TransportOrRejected(MainAttempts[1]))
      => /\ Len(MainAttempts) = 2
         /\ MainAttempts[2].prov = "gemini"
         /\ ReturnsSecondOutcome

\* every request ask made for its main reply failed (or it made none)
AllMainFailed == \A i \in 1..Len(MainAttempts) : Failed(MainAttempts[i])

IsAnalysisAttempt(a) == a.phase = "analysis"

\* the side call was made: ask called _analyse_grammar (line 121)
AnalysisMade == call.analysed

\* C17: when every request ask made for its main reply failed, or no provider
\* could be asked, ask returns without raising a reply that begins with "[",
\* makes no side call for it and logs an event with no grammar_categories and
\* no grammar_comment; and the side call is made exactly when the reply
\* begins with neither "[" nor "ERROR".
C17_AllFailedGivesMarkerAndNoAnalysis ==
    Returned("ask") =>
      /\ ~call.raised
      /\ AllMainFailed =>
           /\ StartsWithBracket(call.reply)
           /\ ~AnalysisMade
           /\ SelectSeq(call.attempts, IsAnalysisAttempt) = <<>>
           /\ call.event.logged
           /\ call.event.extra = NoInfo
      /\ AnalysisMade <=> (~StartsWithBracket(call.reply) /\ ~StartsWithERROR(call.reply))

\* ask has returned after Groq and then Gemini failed
C17_Witness ==
    /\ Returned("ask")
    /\ Len(MainAttempts) = 2
    /\ AllMainFailed
    /\ MainAttempts[2].prov = "gemini"
    /\ call.event.logged

\* C18: every call of ask and of check_grammar made for a user action runs
\* on a worker thread: no request to a provider is made on the UI thread.
C18_NoProviderCallOnUiThread ==
    call.attempts # <<>> => call.thread = "worker"

\* the text a provider's function gives for a recorded request
TextOf(a) == IF a.prov = "groq" THEN _try_groq(OutcomeOf(a)) ELSE _try_gemini(OutcomeOf(a))

\* the reply of ask as the requests for the main reply alone determine it
ReplyFromMain ==
    IF MainAttempts = <<>> THEN <<Atom("[ERROR: No AI service available]")>>
    ELSE TextOf(MainAttempts[Len(MainAttempts)])

\* the failure count as the count at the start of ask and the requests for
\* the main reply alone determine it
CountFromMain ==
    IF MainAttempts # <<>> /\ MainAttempts[1].prov = "groq"
      THEN IF ContainsGroqError(TextOf(MainAttempts[1])) THEN call.count0 + 1 ELSE 0
      ELSE call.count0

\* C20: the side call cannot break or alter the main flow of ask: once the
\* main reply is obtained, whatever the side call is answered (JSON, other
\* text, an error, a timeout), ask goes on without raising, the reply it
\* returns and the failure count are the ones the requests for the main
\* reply alone determine.
C20_AnalysisCannotAlterMainFlow ==
    (call.op = "ask" /\ epc \in {"ask_log", "returned"})
      => /\ ~call.raised
         /\ call.reply = ReplyFromMain
         /\ groq_failed_count = CountFromMain
         /\ epc = "returned" => call.event.logged

\* ask has returned the main reply after the request of its side call timed out
C20_Witness ==
    /\ Returned("ask")
    /\ call.analysed
    /\ \E i \in 1..Len(call.attempts) :
         /\ call.attempts[i].phase = "analysis"
         /\ call.attempts[i].status = "exc"
    /\ call.reply = ReplyFromMain
    /\ call.info = NoInfo

\* C26: ask raises the failure count only when its request to Groq really
\* failed (a status other than 200, or an exception): when Groq answered 200
\* the count is reset to 0, ask returns Groq's text and Gemini is not asked,
\* whatever the text says.
C26_CountsOnlyRealFailures ==
    (Returned("ask") /\ MainAttempts # <<>> /\ MainAttempts[1].prov = "groq")
      => /\ groq_failed_count > call.count0 => Failed(MainAttempts[1])
         /\ ~Failed(MainAttempts[1]) =>
              /\ groq_failed_count = 0
              /\ Len(MainAttempts) = 1
              /\ call.reply = MainAttempts[1].content

\* C27: whatever the text and whatever the provider answered, the result of
\* check_grammar has the keys original, corrected and errors, its errors is
\* a list, and its original is the text that was passed in.
C27_ResultKeepsCallersText ==
    Returned("check_grammar")
      => /\ ~call.raised
         /\ call.result.original.k # "absent"
         /\ call.result.corrected.k # "absent"
         /\ call.result.errors.k = "list"
         /\ call.result.original = JStr(call.input)

(* c is s without the white space at its two ends, cut to its first        *)
(* comment_limit characters: c begins at the first character of s that is  *)
(* no white space, and ends either at the last one or at the limit          *)
IsTrimmedAndCut(c, s) ==
    /\ Len(c) \in 1..comment_limit
    /\ \E i \in 1..Len(s) :
         LET e == i + Len(c) - 1
         IN /\ \A n \in 1..(i - 1) : IsSpace(s[n])
            /\ ~IsSpace(s[i])
            /\ e <= Len(s)
            /\ \A n \in 1..Len(c) : c[n] = s[i + n - 1]
            /\ IF \A n \in (e + 1)..Len(s) : IsSpace(s[n])
                 THEN ~IsSpace(s[e])
                 ELSE Len(c) = comment_limit

\* the short_comment of the object the side call was answered with
ShortCommentOf(response) == json_loads(_strip_code_fence(response)).val.short_comment

\* C22: the analysis has a grammar_comment only if the short_comment of the
\* provider's answer is a string that is not empty once trimmed, and the
\* comment is then that trimmed string cut to at most 120 characters.
C22_CommentTrimmedAndCut ==
    (call.op = "ask" /\ call.analysed /\ call.info.grammar_comment.k # "absent")
      => /\ LoadsObject(call.response)
         /\ LET sc == ShortCommentOf(call.response)
            IN /\ sc.k = "str"
               /\ call.info.grammar_comment.k = "str"
               /\ IsTrimmedAndCut(call.info.grammar_comment.s, sc.s)

\* ask has returned with a comment that was cut: the provider's was longer
C22_Witness ==
    /\ Returned("ask")
    /\ call.analysed
    /\ LoadsObject(call.response)
    /\ Len(ShortCommentOf(call.response).s) > comment_limit
    /\ Len(call.info.grammar_comment.s) = comment_limit
    /\ call.event.extra.grammar_comment = call.info.grammar_comment

\* Groq alone is configured and its failure count has reached the threshold
GroqOnlyDemoted == use_groq /\ ~use_gemini /\ Demoted

InCall == epc \in {"ask_fallback", "ask_reply", "ask_log", "cg_fallback"}

\* the steps an engine call takes after its first
StepOfCall ==
    AskFallback \/ AskAnalyse \/ AskSkipAnalysis \/ AskLog \/ CheckGrammarFallback

\* how many more steps a call at position p can take at most
StepsLeft(p) ==
    CASE p \in {"ask_fallback", "cg_fallback"} -> 3
      [] p = "ask_reply" -> 2
      [] p = "ask_log" -> 1
      [] OTHER -> 0

\* C21: every ask and every check_grammar terminates when each request
\* returns or times out. A call makes a bounded number of requests (ask at
\* most three: two for the main reply and one for the analysis; check_grammar
\* at most two), each _rate_limit sleeps at most min_interval, a call under
\* way can always take its next step, each step brings it strictly nearer to
\* its return, and at its return it has not raised.
C21_CallsTerminate ==
    /\ [](call.op \in {"ask", "check_grammar"}
            => /\ Len(call.attempts) <= (IF call.op = "ask" THEN 3 ELSE 2)
               /\ \A i \in 1..Len(call.attempts) : call.attempts[i].wait \in 0..min_interval
               /\ InCall => ENABLED StepOfCall
               /\ epc = "returned" => ~call.raised)
    /\ [][InCall => StepsLeft(epc') < StepsLeft(epc)]_vars

\* C21 witness: an ask has returned after three requests (Groq failed, Gemini
\* answered, the analysis was asked), one of them after a full _rate_limit
\* sleep and one of them after a timeout or a connection failure
C21_Witness ==
    /\ Returned("ask")
    /\ Len(call.attempts) = 3
    /\ call.attempts[1].status = "exc"
    /\ \E i \in 1..3 : call.attempts[i].wait = min_interval
    /\ call.event.logged
    /\ ~call.raised

\* p is the text s cut to at most n characters
IsCutTo(p, s, n) ==
    /\ Len(p) = (IF Len(s) < n THEN Len(s) ELSE n)
    /\ \A i \in 1..Len(p) : p[i] = s[i]

\* C29: every ask hands one learning event to add_learning_event, after a
\* reply as after an error text, with last_input the input cut to 200
\* characters and last_reply the reply cut to 400; the event handed is not
\* handed again in the same call; and whether or not the event is stored, the
\* logging step leaves the reply and the failure count as they were and ask
\* does not raise.
C29_OneEventPerAsk ==
    /\ [](Returned("ask")
            => /\ call.event.logged
               /\ IsCutTo(call.event.last_input, call.input, input_limit)
               /\ IsCutTo(call.event.last_reply, call.reply, reply_limit)
               /\ ~call.raised)
    /\ [][(call.op = "ask" /\ epc = "ask_log")
            => /\ ~call.event.logged
               /\ call'.event.logged
               /\ call'.reply = call.reply
               /\ groq_failed_count' = groq_failed_count
               /\ epc' = "returned"]_vars
    /\ [][(call.op = "ask" /\ call.event.logged)
            => (call'.event = call.event \/ call' = NoCall)]_vars

\* C29 witness: an ask with an input of 201 characters and a reply of 401
\* has returned its whole reply; the event holds 200 and 400 characters and
\* was not stored
C29_Witness ==
    /\ Returned("ask")
    /\ Len(call.input) = input_limit + 1
    /\ Len(call.reply) = reply_limit + 1
    /\ Len(call.event.last_input) = input_limit
    /\ Len(call.event.last_reply) = reply_limit
    /\ call.event.logged
    /\ ~call.event.stored

\* an ask whose reply is an error text has handed its event as well
ErrorReplyLogged ==
    /\ Returned("ask")
    /\ StartsWithBracket(call.reply)
    /\ call.event.logged

\* ====================================================================
\* Properties of _normalise_categories (specification SpecN)
\* ====================================================================

\* the values the loop of _normalise_categories goes over
ItemsOf(v) == IF v.k = "str" THEN <<v>> ELSE v.items

\* item i is a string that names a category once lower-cased, stripped and
\* its spaces replaced by "_"
AcceptedAt(items, i) == items[i].k = "str" /\ InCategories(NormaliseOne(items[i].s))

\* the place where category c is first seen among the accepted items
FirstSeen(items, c) ==
    CHOOSE i \in 1..Len(items) :
      /\ AcceptedAt(items, i) /\ NormaliseOne(items[i].s) = c
      /\ \A j \in 1..(i - 1) : ~(AcceptedAt(items, j) /\ NormaliseOne(items[j].s) = c)

\* C19: for a grammar_categories value that is a string or a list of any
\* values, _normalise_categories does not raise; its list holds only names
\* of GRAMMAR_CATEGORIES, with no duplicate, each accepted value once, in the
\* order in which the accepted values are first seen; unknown and non-string
\* values are dropped.
C19_NormalisedCategories ==
    (norm # <<>> /\ norm.applied /\ norm.cats.k \in {"str", "list"}) =>
      LET items == ItemsOf(norm.cats)
          out == norm.result.val
      IN /\ ~norm.result.exc
         /\ \A i \in 1..Len(out) : InCategories(out[i])
         /\ \A i, j \in 1..Len(out) : i # j => out[i] # out[j]
         /\ {out[i] : i \in 1..Len(out)}
              = {NormaliseOne(items[i].s) : i \in {n \in 1..Len(items) : AcceptedAt(items, n)}}
         /\ \A i, j \in 1..Len(out) :
              i < j => FirstSeen(items, out[i]) < FirstSeen(items, out[j])

\* a list with a name twice (in two spellings), an unknown name and a number
\* between them has been normalised
C19_Witness ==
    /\ norm # <<>>
    /\ norm.applied
    /\ norm.cats = JList(<<JStr(<<"Spelling", "sp">>), JNum(1), JStr(<<"spelling">>)>>)
    /\ norm.result = Ok(<< <<"spelling">> >>)

\* ====================================================================
\* Properties of two threads in ask at once (specification SpecC)
\* ====================================================================

\* C12: in every interleaving of two threads, the read of last_request_time,
\* the wait and the write of _rate_limit act as one critical section: no two
\* requests are sent less than min_interval apart.
C12_RateLimiterIsCriticalSection == hist.min_gap >= min_interval

\* both threads have returned from ask
BothDone == \A t \in Threads : threads[t].pc = "done"

\* C13: in every interleaving of two threads in ask, no update of the failure
\* counter is lost: when both main requests to Groq failed and none
\* succeeded, the counter ends exactly 2 above its value at the start; and no
\* increment computed from a value read before a reset to 0 is written after
\* that reset.
C13_CounterUpdatesNotLost ==
    /\ (BothDone /\ hist.pfailed = 2 /\ hist.psucceeded = 0)
         => groq_failed_count = hist.count0 + 2
    /\ ~hist.overwrote

\* C25: in every interleaving of two threads in ask, the failure count of
\* Groq stays between 0 and max_failures_before_switch.
C25_CounterWithinThreshold ==
    groq_failed_count \in 0..max_failures_before_switch

====
